---- MODULE Spec2Model ----
(***************************************************************************)
(* Forest Symphony: the perception callbacks of GestureHandler (landmark   *)
(* classifier, part_001) and the hold-to-confirm season debouncer of the   *)
(* App that consumes HandData with head pose (part_000, lines 181-412);    *)
(* the life of the perception sessions (script polling, effect cleanup);   *)
(* the camera controller of the scene (HybridController, part_002); the    *)
(* audio engine (AudioManager.ts, the class of lines 218-443) and the      *)
(* App's bird-call interval; the camera loop that feeds the two models     *)
(* (onFrame, part_001); the wind control of the App of part_000, lines     *)
(* 9-179.                                                                  *)
(*                                                                         *)
(* Units.  Landmark coordinates are normalised [0,1] numbers in the code;  *)
(* here they are integers in hundredths (Scale = 1.00).  A record's x / y  *)
(* and headYaw / headPitch are kept in units of 1/(2*Scale), which makes   *)
(* the division by handCount (1 or 2) and the two-point midpoints exact.   *)
(* Times are integer milliseconds of performance.now().  progress is kept  *)
(* as the numerator of progress/HOLD_DURATION.                             *)
(***************************************************************************)
EXTENDS Integers, Sequences, FiniteSets, TLC

\* ------------------------------------------------------------------ bounds
\* The number of perception callbacks (hand or face results) of a run.
MaxCallbacks == 6

\* The number of hand results of a classifier run.
MaxProbes == 2

\* The number of perception callbacks of a session-lifecycle run.
MaxSessionCallbacks == 3

\* The number of times the script poll finds the scripts missing.
MaxPolls == 2

\* The number of sounds scheduled (notes, bird calls, leaf hits, growth
\* pulses) and of calls that found no audio context, of a run.
MaxSounds == 4

\* The number of calls of init() on one engine.
MaxInits == 3

\* The number of calls of setWindIntensity of a run.
MaxWindCalls == 4

\* The number of render frames of a camera-controller run.
MaxFrames == 2

\* The number of input events (records delivered, key presses and releases)
\* of a camera-controller run.
MaxInputs == 3

\* --------------------------------------------------------- program constants
Scale == 100
HOLD_DURATION == 1500
ThumbThreshold == 8

NoSeason == "null"
Seasons == {"spring", "summer", "autumn", "winter"}
Gestures == {"none", "single", "dual_fist", "dual_open",
             "dual_1", "dual_2", "dual_3", "dual_4"}

Min(a, b) == IF a < b THEN a ELSE b

\* ------------------------------------------------------------------ landmarks
Pt(px, py) == [x |-> px, y |-> py]

\* The landmark indices countFingers and processCombinedResults read.
HandIdx == {0, 4, 5, 6, 8, 10, 12, 14, 16, 18, 20}
FaceIdx == {4, 10, 152, 234, 454}

\* Math.hypot(dx, dy) squared; every use compares two hypot values, and the
\* square root is monotone, so the comparisons are made on the squares.
Hypot2(dx, dy) == dx * dx + dy * dy

\* Bugged variant: a finger whose tip is exactly as far as its joint counts.
isFingerExtendedLoose(landmarks, tipIdx, pipIdx) ==
    Hypot2(landmarks[tipIdx].x - landmarks[0].x, landmarks[tipIdx].y - landmarks[0].y)
        >= Hypot2(landmarks[pipIdx].x - landmarks[0].x, landmarks[pipIdx].y - landmarks[0].y)

isFingerExtended(landmarks, tipIdx, pipIdx) ==
    LET wrist == landmarks[0]
        dTip2 == Hypot2(landmarks[tipIdx].x - wrist.x, landmarks[tipIdx].y - wrist.y)
        dPip2 == Hypot2(landmarks[pipIdx].x - wrist.x, landmarks[pipIdx].y - wrist.y)
    IN  dTip2 > dPip2

isThumbOpen(landmarks) ==
    LET thumbTip == landmarks[4]
        indexMCP == landmarks[5]
    IN  Hypot2(thumbTip.x - indexMCP.x, thumbTip.y - indexMCP.y)
            > ThumbThreshold * ThumbThreshold

B2N(b) == IF b THEN 1 ELSE 0

countFingers(landmarks) ==
      B2N(isThumbOpen(landmarks))
    + B2N(isFingerExtended(landmarks, 8, 6))
    + B2N(isFingerExtended(landmarks, 12, 10))
    + B2N(isFingerExtended(landmarks, 16, 14))
    + B2N(isFingerExtended(landmarks, 20, 18))

\* Bugged variant: a mismatched pair of counts that differ by one is taken
\* for the lower matched gesture.
DualGestureLenient(f1, f2) ==
    IF f1 >= 4 /\ f2 >= 4 THEN "dual_open"
    ELSE IF f1 = 0 /\ f2 = 0 THEN "dual_fist"
    ELSE IF f1 = 1 /\ f2 \in {1, 2} THEN "dual_1"
    ELSE IF f1 = 2 /\ f2 = 2 THEN "dual_2"
    ELSE IF f1 = 3 /\ f2 = 3 THEN "dual_3"
    ELSE IF f1 = 4 /\ f2 = 4 THEN "dual_4"
    ELSE "single"

\* The if / else-if chain of the two-hand branch, in the code's order.
DualGesture(f1, f2) ==
    IF f1 >= 4 /\ f2 >= 4 THEN "dual_open"
    ELSE IF f1 = 0 /\ f2 = 0 THEN "dual_fist"
    ELSE IF f1 = 1 /\ f2 = 1 THEN "dual_1"
    ELSE IF f1 = 2 /\ f2 = 2 THEN "dual_2"
    ELSE IF f1 = 3 /\ f2 = 3 THEN "dual_3"
    ELSE IF f1 = 4 /\ f2 = 4 THEN "dual_4"
    ELSE "single"

RECURSIVE SumSeq(_)
SumSeq(s) == IF s = <<>> THEN 0 ELSE Head(s) + SumSeq(Tail(s))

NullResults == [valid |-> FALSE, multiHandLandmarks |-> <<>>, multiFaceLandmarks |-> <<>>]
HandResults(hs) == [valid |-> TRUE, multiHandLandmarks |-> hs, multiFaceLandmarks |-> <<>>]
FaceResults(fs) == [valid |-> TRUE, multiHandLandmarks |-> <<>>, multiFaceLandmarks |-> fs]

\* latestHands.current?.multiHandLandmarks?.length > 0
HasHands(res) == res.valid /\ Len(res.multiHandLandmarks) > 0
HasFace(res) == res.valid /\ Len(res.multiFaceLandmarks) > 0

\* Bugged variant: the face callback takes the hands for missing only
\* until the first hand result has arrived.
HandsNeverArrived(res) == ~res.valid

\* !latestHands.current || !latestHands.current.multiHandLandmarks?.length
HandsMissing(res) == ~HasHands(res)

FingerCountsOf(hres) ==
    IF HasHands(hres)
    THEN [i \in 1..Len(hres.multiHandLandmarks) |-> countFingers(hres.multiHandLandmarks[i])]
    ELSE <<>>

\* The record processCombinedResults builds from the retained hand and face
\* results (lines 113-215); x, y, headYaw, headPitch in units of 1/(2*Scale).
CombinedRecord(hres, fres) ==
    LET hs == hres.multiHandLandmarks
        handCount == Len(hs)
        fc == FingerCountsOf(hres)
        totalX == SumSeq([i \in 1..handCount |-> Scale - hs[i][0].x])
        totalY == SumSeq([i \in 1..handCount |-> hs[i][0].y])
        lm == fres.multiFaceLandmarks[1]
        hand == IF HasHands(hres)
                THEN [gesture   |-> IF handCount = 2 THEN DualGesture(fc[1], fc[2])
                                    ELSE "single",
                      x         |-> (2 * totalX) \div handCount,
                      y         |-> (2 * totalY) \div handCount,
                      handCount |-> handCount]
                ELSE [gesture |-> "none", x |-> Scale, y |-> Scale, handCount |-> 0]
    IN  [gesture   |-> hand.gesture,
         x         |-> hand.x,
         y         |-> hand.y,
         handCount |-> hand.handCount,
         headYaw   |-> IF HasFace(fres)
                       THEN -((2 * lm[4].x - (lm[234].x + lm[454].x)) * 10) ELSE 0,
         headPitch |-> IF HasFace(fres)
                       THEN -((2 * lm[4].y - (lm[10].y + lm[152].y)) * 10) ELSE 0]

\* ------------------------------------------------------------ sample inputs
\* A hand is built digit by digit around a wrist at (50,80)+(sx,sy).  Each
\* digit is "ext" (extended), "edge" (tip exactly on the threshold, which the
\* strict comparisons count as not extended) or "curl".
Digits == {"thumb", "index", "middle", "ring", "pinky"}
Poses == {"ext", "edge", "curl"}

Column(digit) ==
    CASE digit = "index" -> 44 [] digit = "middle" -> 50
      [] digit = "ring" -> 56 [] digit = "pinky" -> 62 [] OTHER -> 44

LongTip(digit, pose) ==
    CASE pose = "ext"  -> Pt(Column(digit), 45)
      [] pose = "edge" -> Pt(100 - Column(digit), 60)
      [] OTHER         -> Pt(Column(digit), 70)

ThumbTip(pose) ==
    CASE pose = "ext" -> Pt(30, 65) [] pose = "edge" -> Pt(36, 65) [] OTHER -> Pt(42, 65)

MkHand(sx, sy, cfg) ==
    LET base == [i \in HandIdx |->
                   CASE i = 0  -> Pt(50, 80)
                     [] i = 4  -> ThumbTip(cfg["thumb"])
                     [] i = 5  -> Pt(44, 65)
                     [] i = 6  -> Pt(Column("index"), 60)
                     [] i = 8  -> LongTip("index", cfg["index"])
                     [] i = 10 -> Pt(Column("middle"), 60)
                     [] i = 12 -> LongTip("middle", cfg["middle"])
                     [] i = 14 -> Pt(Column("ring"), 60)
                     [] i = 16 -> LongTip("ring", cfg["ring"])
                     [] i = 18 -> Pt(Column("pinky"), 60)
                     [] OTHER  -> LongTip("pinky", cfg["pinky"])]
    IN  [i \in HandIdx |-> Pt(base[i].x + sx, base[i].y + sy)]

\* k digits extended, long fingers first and the thumb last, the rest curled.
DigitRank(digit) ==
    CASE digit = "index" -> 1 [] digit = "middle" -> 2 [] digit = "ring" -> 3
      [] digit = "pinky" -> 4 [] OTHER -> 5

CountPose(k) == [dg \in Digits |-> IF DigitRank(dg) <= k THEN "ext" ELSE "curl"]

LeftHand(k) == MkHand(-20, 0, CountPose(k))
RightHand(k) == MkHand(20, -10, CountPose(k))

\* The hand frames the perception model delivers in the pipeline runs.
MainFrames ==
    { <<>>,
      << LeftHand(1) >>,
      << LeftHand(1), RightHand(1) >>,
      << LeftHand(2), RightHand(2) >>,
      << LeftHand(3), RightHand(3) >>,
      << LeftHand(4), RightHand(4) >> }

MkFace(noseX, noseY) ==
    [i \in FaceIdx |->
        CASE i = 4 -> Pt(noseX, noseY)
          [] i = 10 -> Pt(50, 30)
          [] i = 152 -> Pt(50, 70)
          [] i = 234 -> Pt(35, 50)
          [] OTHER -> Pt(65, 50)]

MainFaces == { <<>>, << MkFace(46, 52) >> }

\* The frames of the classifier runs: one hand in every combination of digit
\* poses (thresholds included), two hands in every pair of finger counts, and
\* the empty frame.
ProbeFrames ==
    { << MkHand(0, 0, cfg) >> : cfg \in [Digits -> Poses] }
        \cup { << LeftHand(j), RightHand(k) >> : j \in 0..5, k \in 0..5 }
        \cup { <<>> }

ProbeDts == {1500}

\* Wall-clock gaps between consecutive callbacks, in ms.
DtSet == {500, 999}

\* --------------------------------------------------------- camera controller
\* Units.  A frame's delta is an integer number of 1/TimeDen s.  Speeds are
\* integers in 1/SpeedDen m/s, angular speeds in 1/(2*SpeedDen) rad/s.  The
\* velocity and the camera height are fixed-point numbers in 1/VelDen (m/s,
\* m), angles in 1/AngleDen rad.  A record's fields are in 1/RecDen.
TimeDen == 20
SpeedDen == 1000
VelDen == SpeedDen * TimeDen
AngleDen == 2 * SpeedDen * TimeDen
RecDen == 2 * Scale

Abs(n) == IF n < 0 THEN -n ELSE n

\* Math.sign
Sign(n) == IF n > 0 THEN 1 ELSE IF n < 0 THEN -1 ELSE 0

Max(a, b) == IF a > b THEN a ELSE b

\* n / d rounded toward zero.
DivR(n, d) == Sign(n) * (Abs(n) \div d)

\* x * a / TimeDen, rounded toward zero, without the intermediate x * a.
MulDiv(x, a) == x * (a \div TimeDen) + DivR(x * (a % TimeDen), TimeDen)

\* Math.pow(m, 1.5) in 1/SpeedDen, for m = (p/10)^2 in 1/RecDen: (p/10)^3.
\* The sample records keep every input beyond a dead zone on that grid.
Pow15(m) == LET p == CHOOSE q \in 0..20 : 2 * q * q = m IN p * p * p

\* rotDeadzone = 0.15 and moveDeadzone = 0.25, in 1/RecDen.
rotDeadzone == (15 * RecDen) \div 100
moveDeadzone == (25 * RecDen) \div 100

\* Math.sign(input) * Math.pow(Math.abs(input), 1.5) * 2.0, in 1/(2*SpeedDen) rad/s
rotSpeedY(data) ==
    IF Abs(data.headYaw) > rotDeadzone
    THEN Sign(data.headYaw) * Pow15(Abs(data.headYaw)) * 4 ELSE 0

\* Math.sign(input) * Math.pow(Math.abs(input), 1.5) * 1.5, in 1/(2*SpeedDen) rad/s
rotSpeedX(data) ==
    IF Abs(data.headPitch) > rotDeadzone
    THEN Sign(data.headPitch) * Pow15(Abs(data.headPitch)) * 3 ELSE 0

\* Bugged variant: the pitch is not clamped.
ClampPitchOff(pitch) == pitch

\* Math.max(-1.4, Math.min(1.4, currentPitch.current))
ClampPitch(pitch) == Max(-((14 * AngleDen) \div 10), Min((14 * AngleDen) \div 10, pitch))

\* Bugged variant: the hand terms apply whatever the hand count.
HandsPresentAlways(data) == data.handCount >= 0

\* handData.handCount > 0
HandsPresent(data) == data.handCount > 0

\* keys.current[a] || keys.current[b]
Pressed(held, a, b) == a \in held \/ b \in held

B2I(b) == IF b THEN 1 ELSE 0

\* The keyboard terms of the three speeds, in 1/SpeedDen m/s.
KeyForward(held) ==
    12 * SpeedDen * (B2I(Pressed(held, "KeyW", "ArrowUp")) - B2I(Pressed(held, "KeyS", "ArrowDown")))

KeyStrafe(held) ==
    12 * SpeedDen * (B2I(Pressed(held, "KeyD", "ArrowRight")) - B2I(Pressed(held, "KeyA", "ArrowLeft")))

\* forwardSpeed, strafeSpeed, verticalSpeed of a frame, in 1/SpeedDen m/s.
forwardSpeed(data, held) ==
    (IF HandsPresent(data)
     THEN IF data.gesture = "dual_open" THEN 8 * SpeedDen
          ELSE IF data.gesture = "dual_fist" THEN -(5 * SpeedDen) ELSE 0
     ELSE 0) + KeyForward(held)

strafeSpeed(data, held) ==
    (IF HandsPresent(data) /\ Abs(data.x - RecDen \div 2) > moveDeadzone
     THEN Sign(data.x - RecDen \div 2) * Pow15(Abs(data.x - RecDen \div 2)) * 15
     ELSE 0) + KeyStrafe(held)

verticalSpeed(data, held) ==
    IF HandsPresent(data) /\ Abs(data.y - RecDen \div 2) > moveDeadzone
    THEN -(Sign(data.y - RecDen \div 2) * Pow15(Abs(data.y - RecDen \div 2)) * 8)
    ELSE 0

\* targetVelocity in 1/VelDen m/s for a camera whose yaw is 0: forward is
\* (0, 0, -1), right is (1, 0, 0), up is (0, 1, 0).
targetVelocity(data, held) ==
    << strafeSpeed(data, held) * TimeDen,
       verticalSpeed(data, held) * TimeDen,
       -(forwardSpeed(data, held) * TimeDen) >>

\* damping: 10 when the three speeds are 0, else 3.
damping(data, held) ==
    IF forwardSpeed(data, held) = 0 /\ strafeSpeed(data, held) = 0
          /\ verticalSpeed(data, held) = 0
    THEN 10 ELSE 3

\* Vector3.lerp(target, alpha) with alpha = a / TimeDen:
\* this += (target - this) * alpha, component by component, unclamped.
Lerp(v, target, a) == [i \in 1..3 |-> v[i] + MulDiv(target[i] - v[i], a)]

\* velocity.lengthSq() > 0.01
LengthSqAbove(v) ==
    \/ \E i \in 1..3 : Abs(v[i]) > VelDen \div 10
    \/ v[1] * v[1] + v[2] * v[2] + v[3] * v[3] > (VelDen \div 10) * (VelDen \div 10)

\* Bugged variant: no floor under the camera.
FloorOff(y) == y

\* if (camera.position.y < 2) camera.position.y = 2
Floor(y) == IF y < 2 * VelDen THEN 2 * VelDen ELSE y

\* Records the controller is handed, fields in 1/RecDen: no hands; a record
\* with hand count 0 whose other fields are those of two open hands off
\* centre; two open hands and two fists at the centre; one hand high on the
\* left and one low on the right; the head turned and tilted either way.
Rec(g, hx, hy, n, yaw, pitch) ==
    [gesture |-> g, x |-> hx, y |-> hy, handCount |-> n, headYaw |-> yaw, headPitch |-> pitch]

CamRecords ==
    { Rec("none", 100, 100, 0, 0, 0),
      Rec("dual_open", 172, 28, 0, 0, 0),
      Rec("dual_open", 100, 100, 2, 0, 0),
      Rec("dual_fist", 100, 100, 2, 0, 0),
      Rec("single", 28, 28, 1, 0, 0),
      Rec("single", 172, 172, 1, 0, 0),
      Rec("none", 100, 100, 0, 128, 200),
      Rec("none", 100, 100, 0, -128, -200) }

\* Key codes pressed and released.
KeyCodes == { "KeyW", "KeyS", "KeyD" }

\* Frame deltas in 1/TimeDen s: 50 ms, 150 ms and a 1 s stall.
Deltas == { 1, 3, 20 }

\* ---------------------------------------------------------------------- state
VARIABLES
    now,               \* performance.now()
    season,            \* App state
    handData,          \* App state: the last record delivered
    isStarted,         \* App state
    pendingSeason,     \* App state (NoSeason for null)
    progress,          \* App state, numerator over HOLD_DURATION
    audioManager,      \* App ref: "null" or "initialized"
    gestureHoldTimer,  \* App ref
    lastGesture,       \* App ref
    lastTime,          \* App ref
    onHandUpdateSeason,\* the season closed over by the onHandUpdate callback
                       \* that the running perception session calls
    latestHands,       \* GestureHandler ref
    latestFace,        \* GestureHandler ref
    fingerCounts,      \* the fingerCounts array of the last processing
    callbacks,         \* how many perception callbacks have run
    deliveredFace,     \* history: the face result the last delivery read
    keys,              \* HybridController ref: the key codes held down
    velocity,          \* HybridController ref: << x, y, z >>, in 1/VelDen m/s
    currentYaw,        \* HybridController ref, in 1/AngleDen rad
    currentPitch,      \* HybridController ref, in 1/AngleDen rad
    cameraPositionY,   \* camera.position.y, in 1/VelDen m
    frames,            \* how many render frames have run
    inputs,            \* how many input events the controller run has seen
    scriptsLoaded,     \* window.Hands && window.Camera && window.FaceMesh
    status,            \* GestureHandler state
    isMounted,         \* the isMounted flag of each run of the GestureHandler
                       \* effect (a perception session), in the order of the runs
    registered,        \* the sessions whose initMediaPipe has built the models
                       \* and registered their onResults callbacks
    polls,             \* the pending setTimeout(initMediaPipe, ...) timers
    polled,            \* how many times a poll has found the scripts missing
    handsRef,          \* GestureHandler ref: the session whose Hands object it
                       \* holds, 0 for null
    faceMeshRef,       \* GestureHandler ref, likewise
    closed,            \* the sessions whose model objects have had close() called
    cameraRef,         \* GestureHandler ref: "null", or the camera with the
                       \* state of its start(): "starting", "running", "rejected"
    unmounted,         \* the App (and with it the GestureHandler) has unmounted
    uncaught,          \* an exception has escaped a perception callback
    audio,             \* AudioManager fields: isPlaying, currentSeason, the
                       \* reverb gain in tenths, timerID (a timeout is pending);
                       \* history: how many times init() was called, how many
                       \* audio contexts were created, how many melody
                       \* timeouts are pending
    birdInterval,      \* App effect: the season its setInterval closed over,
                       \* NoSeason when none is set
    sounds,            \* how many sounds of each kind have been scheduled
    ignoredCalls,      \* history: calls of setSeason and of the triggers that
                       \* found no audio context
    closedWhileMounted,\* history: close() was called on a session's models
                       \* while its isMounted flag was still true
    deliveredBy,       \* history: the session that delivered the last record
    lateCallbacks,     \* history: callbacks run for sessions already torn down
    cameraLoop,        \* the onFrame callback of the camera: the model whose
                       \* send() it awaits next, and history: the records
                       \* delivered since the frame began, whether the last
                       \* frame has completed
    gestureState,      \* App state `gesture` of the App with the wind control
    intensity,         \* App state of that App, in hundredths
    windLevels,        \* history: the levels passed to setWindIntensity
    hist               \* history of the deliveries (read by the properties only):
                       \*   start  time of the first update of the current run of
                       \*          consecutive updates carrying one gesture
                       \*   season the active season just before that update
                       \*   idle   whether the debouncer was Idle just before it
                       \*   brk    time of the last update whose gesture maps to no season
                       \*   lost   the hold timer that update found
                       \*   changes how many times the active season has changed

vars == << now, season, handData, isStarted, pendingSeason, progress, audioManager,
           gestureHoldTimer, lastGesture, lastTime, onHandUpdateSeason,
           latestHands, latestFace, fingerCounts, callbacks, deliveredFace,
           keys, velocity, currentYaw, currentPitch, cameraPositionY, frames, inputs,
           scriptsLoaded, status, isMounted, registered, polls, polled, handsRef,
           faceMeshRef, closed, cameraRef, unmounted, uncaught, audio, birdInterval,
           sounds, ignoredCalls, closedWhileMounted, deliveredBy, lateCallbacks,
           cameraLoop, gestureState, intensity, windLevels, hist >>

\* What a delivery of a record writes.
deliveryVars == << season, handData, pendingSeason, progress, gestureHoldTimer,
                   lastGesture, lastTime, fingerCounts, deliveredFace, hist >>

\* The state of the perception sessions.
sessionVars == << scriptsLoaded, status, isMounted, registered, polls, polled, handsRef,
                  faceMeshRef, closed, cameraRef, unmounted, uncaught,
                  closedWhileMounted, deliveredBy, lateCallbacks >>

\* The state of the audio engine and of the App's bird-call interval.
audioVars == << audioManager, audio, birdInterval, sounds, ignoredCalls >>

\* The state of the camera controller.
controllerVars == << keys, velocity, currentYaw, currentPitch, cameraPositionY,
                     frames, inputs >>

\* The state of the App whose gesture drives the wind control.
windVars == << gestureState, intensity, windLevels >>

\* new AudioManager(): the field initialisers.
FreshEngine ==
    [isPlaying |-> FALSE, currentSeason |-> "summer", reverbAmt |-> 0, timerID |-> FALSE,
     inits |-> 0, contexts |-> 0, pending |-> 0]

NoSounds == [notes |-> 0, birds |-> 0, leafHits |-> 0, pulses |-> 0]

InitBase ==
    /\ now = 0
    /\ season = "summer"
    /\ handData = [gesture |-> "none", x |-> Scale, y |-> Scale, handCount |-> 0,
                   headYaw |-> 0, headPitch |-> 0]
    /\ isStarted = FALSE
    /\ pendingSeason = NoSeason
    /\ progress = 0
    /\ audioManager = "null"
    /\ gestureHoldTimer = 0
    /\ lastGesture = "none"
    /\ lastTime = 0
    /\ onHandUpdateSeason = "summer"
    /\ latestHands = NullResults
    /\ latestFace = NullResults
    /\ fingerCounts = <<>>
    /\ callbacks = 0
    /\ deliveredFace = NullResults
    /\ keys = {}
    /\ velocity = << 0, 0, 0 >>
    /\ currentYaw = 0
    /\ currentPitch = 0
    /\ cameraPositionY = 8 * VelDen
    /\ frames = 0
    /\ inputs = 0
    /\ status = "Waiting for camera..."
    /\ isMounted = << >>
    /\ registered = {}
    /\ polls = {}
    /\ polled = 0
    /\ handsRef = 0
    /\ faceMeshRef = 0
    /\ closed = {}
    /\ cameraRef = "null"
    /\ unmounted = FALSE
    /\ uncaught = FALSE
    /\ audio = FreshEngine
    /\ birdInterval = NoSeason
    /\ sounds = NoSounds
    /\ ignoredCalls = 0
    /\ closedWhileMounted = FALSE
    /\ deliveredBy = 0
    /\ lateCallbacks = 0
    /\ cameraLoop = [awaiting |-> "hands", records |-> 0, complete |-> FALSE]
    /\ gestureState = "none"
    /\ intensity = 0
    /\ windLevels = << >>
    /\ hist = [start |-> 0, season |-> "summer", idle |-> TRUE,
               brk |-> 0, lost |-> 0, changes |-> 0]

\* The page with the perception scripts already loaded.
Init == InitBase /\ scriptsLoaded = TRUE

\* The page while the perception scripts are still loading.
InitUnloaded == InitBase /\ scriptsLoaded = FALSE

\* ------------------------------------------------------------------ debouncer
\* Bugged variant: the table starts one season late, so that two fingers
\* select autumn.
TargetSeasonShifted(gesture) ==
    CASE gesture = "dual_1" -> "summer"
      [] gesture = "dual_2" -> "autumn"
      [] gesture = "dual_3" -> "winter"
      [] gesture = "dual_4" -> "spring"
      [] OTHER -> NoSeason

TargetSeason(gesture) ==
    CASE gesture = "dual_1" -> "spring"
      [] gesture = "dual_2" -> "summer"
      [] gesture = "dual_3" -> "autumn"
      [] gesture = "dual_4" -> "winter"
      [] OTHER -> NoSeason

\* Bugged variant: the gesture of the previous update is not compared, so a
\* new gesture inherits the time since the previous update.
SameAsLastAlways(gesture) == gesture \in Gestures

\* data.gesture === lastGesture.current
SameAsLast(gesture) == gesture = lastGesture

\* Bugged variant: any hold at all commits.
HoldReachedAtOnce(timer) == timer > 0

\* gestureHoldTimer.current >= HOLD_DURATION
HoldReached(timer) == timer >= HOLD_DURATION

\* Bugged variant: the hold timer survives a reset.
TimerKept == gestureHoldTimer

\* gestureHoldTimer.current = 0 of the two else branches.
TimerReset == 0

\* Bugged variant: the outer else branch leaves the pending season alone.
IdlePendingKept == pendingSeason

\* setPendingSeason(null) of the outer else branch.
IdlePending == NoSeason

\* handleHandUpdate(data), called at time t.  `onHandUpdateSeason` is the
\* `season` the callback closed over when it was created.
handleHandUpdate(data, t) ==
    LET dt == t - lastTime
        targetSeason == TargetSeason(data.gesture)
        timer == gestureHoldTimer + dt
    IN  /\ handData' = data
        /\ lastTime' = t
        /\ IF targetSeason # NoSeason /\ targetSeason # onHandUpdateSeason
           THEN IF SameAsLast(data.gesture)
                THEN IF HoldReached(timer)
                     THEN /\ season' = targetSeason
                          /\ gestureHoldTimer' = 0
                          /\ pendingSeason' = NoSeason
                          /\ progress' = 0
                     ELSE /\ season' = season
                          /\ gestureHoldTimer' = timer
                          /\ pendingSeason' = targetSeason
                          /\ progress' = Min(timer, HOLD_DURATION)
                ELSE /\ season' = season
                     /\ gestureHoldTimer' = TimerReset
                     /\ pendingSeason' = targetSeason
                     /\ progress' = 0
           ELSE /\ season' = season
                /\ gestureHoldTimer' = TimerReset
                /\ pendingSeason' = IdlePending
                /\ progress' = 0
        /\ lastGesture' = data.gesture
        /\ hist' =
             LET newRun == ~(data.gesture = handData.gesture /\ lastTime > 0)
                 isBrk == targetSeason = NoSeason
             IN  [start   |-> IF newRun THEN t ELSE hist.start,
                  season  |-> IF newRun THEN season ELSE hist.season,
                  idle    |-> IF newRun
                              THEN pendingSeason = NoSeason /\ gestureHoldTimer = 0
                              ELSE hist.idle,
                  brk     |-> IF isBrk THEN t ELSE hist.brk,
                  lost    |-> IF isBrk THEN gestureHoldTimer ELSE hist.lost,
                  changes |-> IF season' # season THEN hist.changes + 1 ELSE hist.changes]

\* Bugged variant: the delivered position is smoothed with the position of
\* the previous record, so the record depends on earlier deliveries.
processSmoothedResults(hres, fres, t) ==
    /\ fingerCounts' = FingerCountsOf(hres)
    /\ deliveredFace' = fres
    /\ handleHandUpdate([CombinedRecord(hres, fres) EXCEPT
                             !.x = (@ + handData.x) \div 2], t)

\* processCombinedResults(), reading the retained results hres / fres.
processCombinedResults(hres, fres, t) ==
    /\ fingerCounts' = FingerCountsOf(hres)
    /\ deliveredFace' = fres
    /\ handleHandUpdate(CombinedRecord(hres, fres), t)

\* ------------------------------------------------------------- audio engine
\* The engine as one value: the App's ref (am: "null", "constructed" once
\* new AudioManager() has run, "initialized" once init() has created the
\* context and the master gain), its fields (a) and the sounds scheduled (s).
Engine == [am |-> audioManager, a |-> audio, s |-> sounds]

\* Bugged variant: the triggers run on any engine that exists.
ReadyLoose(am) == am # "null"

\* this.ctx && this.masterGain
Ready(am) == am = "initialized"

\* reverbAmt of setSeason, in tenths.
ReverbAmt(s) ==
    CASE s = "summer" -> 1 [] s = "winter" -> 5 [] OTHER -> 2

\* scheduleNote(): playRandomNote() and the next timeout.
scheduleNote(e) ==
    IF ~Ready(e.am)
    THEN [e EXCEPT !.a.timerID = FALSE]
    ELSE [e EXCEPT !.s.notes = @ + 1, !.a.timerID = TRUE, !.a.pending = @ + 1]

\* startMelody()
startMelody(e) ==
    IF e.a.isPlaying THEN e ELSE scheduleNote([e EXCEPT !.a.isPlaying = TRUE])

\* Bugged variant: init() does not return when the context exists.
initAgain(e) ==
    startMelody([e EXCEPT !.am = "initialized", !.a.reverbAmt = 2,
                          !.a.inits = @ + 1, !.a.contexts = @ + 1])

\* init(): context, master gain, setupReverb() (gain 0.2), startMelody().
init(e) ==
    IF e.am = "initialized" THEN [e EXCEPT !.a.inits = @ + 1]
    ELSE startMelody([e EXCEPT !.am = "initialized", !.a.reverbAmt = 2,
                               !.a.inits = @ + 1, !.a.contexts = @ + 1])

\* setSeason(season)
setSeason(e, s) ==
    IF ~Ready(e.am) THEN e
    ELSE [e EXCEPT !.a.currentSeason = s, !.a.reverbAmt = ReverbAmt(s)]

\* playBirdSound / playLeafHit / playGrowthPulse: one sound of that kind.
playSound(e, kind) ==
    IF ~Ready(e.am) THEN e ELSE [e EXCEPT !.s[kind] = @ + 1]

SoundCount == sounds.notes + sounds.birds + sounds.leafHits + sounds.pulses

\* 1 when a call finds no audio context, else 0.
NoContext == IF audioManager = "initialized" THEN 0 ELSE 1

\* The engine becomes e.
SetEngine(e) ==
    /\ audioManager' = e.am
    /\ audio' = e.a
    /\ sounds' = e.s

\* The App effect "Sync Audio to Season" (deps [season, isStarted]) for the
\* season sn: setSeason, and the bird-call interval for summer and spring.
BirdIntervalFor(sn) == IF sn \in { "summer", "spring" } THEN sn ELSE NoSeason

\* --------------------------------------------------------------- wind control
\* The App of part_000, lines 9-179: gesture none / fist / open with a hold
\* intensity, here in hundredths.
WindGestures == { "none", "fist", "open" }

\* Hold intensities delivered: 0, the two thresholds, just above each, 1.
Intensities == { 0, 30, 31, 60, 61, 100 }

\* Bugged variant: the thresholds are inclusive.
WindLevelInclusive(g, i) ==
    IF g = "fist" THEN (IF i >= 60 THEN 3 ELSE IF i >= 30 THEN 2 ELSE 1) ELSE 0

\* The argument of setWindIntensity in the effect "Sync gesture to audio".
WindLevel(g, i) ==
    IF g = "fist" THEN (IF i > 60 THEN 3 ELSE IF i > 30 THEN 2 ELSE 1) ELSE 0

\* setWindIntensity(level) of the engine: the level is taken as passed.
setWindIntensity(levels, level) == Append(levels, level)

\* ------------------------------------------------------- perception session
\* The delay of the script poll, ms.
PollDelay == 500

\* Bugged variant: a poll that finds the scripts missing schedules nothing.
PollDropped(s) == polls \ { t \in polls : t.session = s }

\* setTimeout(initMediaPipe, 500) of session s.
PollAgain(s) == polls \cup { [session |-> s, delay |-> PollDelay] }

\* initMediaPipe() of session s, up to its await of camera.start(); hRef and
\* fRef are the two model refs as the caller leaves them.  A state update of
\* an unmounted component is dropped.
initMediaPipe(s, hRef, fRef) ==
    IF ~scriptsLoaded
    THEN /\ status' = IF unmounted THEN status ELSE "Loading MediaPipe models..."
         /\ polls' = PollAgain(s)
         /\ handsRef' = hRef
         /\ faceMeshRef' = fRef
         /\ UNCHANGED << registered, cameraRef >>
    ELSE /\ status' = IF unmounted THEN status ELSE "Initializing Models..."
         /\ polls' = { t \in polls : t.session # s }
         /\ handsRef' = s
         /\ faceMeshRef' = s
         /\ registered' = registered \cup { s }
         /\ cameraRef' = IF ~unmounted /\ cameraRef = "null" THEN "starting" ELSE cameraRef

\* Bugged variant: the flag is still set when the models are closed.
AfterFlagKept(m, s) == m

\* isMounted = false, the first statement of the effect's cleanup.
AfterFlagCleared(m, s) == [m EXCEPT ![s] = FALSE]

\* The flags once the cleanup of the effect run s has returned.
TornDown(s) == [AfterFlagCleared(isMounted, s) EXCEPT ![s] = FALSE]

\* The cleanup of the effect run s: isMounted = false, then close() on the
\* models the refs hold (the refs are nulled after that, by the caller here).
Cleanup(s) ==
    LET m1 == AfterFlagCleared(isMounted, s)
    IN  /\ closed' = closed \cup ({ handsRef, faceMeshRef } \ { 0 })
        /\ closedWhileMounted' =
             (closedWhileMounted \/ (m1[s] /\ (handsRef # 0 \/ faceMeshRef # 0)))

\* Bugged variant: processCombinedResults does not test the flag.
DeliversAlways(s) == s \in registered

\* !(!isMounted || !canvasRef.current) of processCombinedResults
Delivers(s) == isMounted[s] /\ ~unmounted

\* A landmark array that lacks an index the code reads: the read of .x on
\* undefined throws a TypeError.
Throws(hres, fres) ==
    \/ \E i \in 1..Len(hres.multiHandLandmarks) :
          ~(HandIdx \subseteq DOMAIN hres.multiHandLandmarks[i])
    \/ HasFace(fres) /\ ~(FaceIdx \subseteq DOMAIN fres.multiFaceLandmarks[1])

\* processCombinedResults() called by a callback of session s.
OnResults(s, hres, fres, t) ==
    IF Delivers(s)
    THEN IF Throws(hres, fres)
         THEN /\ uncaught' = TRUE
              /\ UNCHANGED << deliveryVars, status, deliveredBy, lateCallbacks >>
         ELSE /\ processCombinedResults(hres, fres, t)
              /\ status' = "Head Tracking Active"
              /\ deliveredBy' = s
              /\ UNCHANGED << uncaught, lateCallbacks >>
    ELSE /\ lateCallbacks' = lateCallbacks + 1
         /\ UNCHANGED << deliveryVars, status, deliveredBy, uncaught >>

\* The session of the latest effect run.
Live == Len(isMounted)

\* -------------------------------------------------------------------- actions
\* handleStart (a new engine, init()), then the effects of the render with
\* isStarted: the GestureHandler effect (first session, initMediaPipe) and
\* the audio effect.
Start ==
    /\ ~isStarted
    /\ isStarted' = TRUE
    /\ SetEngine(setSeason(init([am |-> "constructed", a |-> FreshEngine, s |-> sounds]),
                           season))
    /\ birdInterval' = BirdIntervalFor(season)
    /\ onHandUpdateSeason' = season
    /\ isMounted' = << TRUE >>
    /\ initMediaPipe(1, 0, 0)
    /\ UNCHANGED << now, latestHands, latestFace, callbacks, deliveryVars, controllerVars,
                    scriptsLoaded, polled, closed, unmounted, uncaught, ignoredCalls,
                    closedWhileMounted, deliveredBy, lateCallbacks,
                    cameraLoop, windVars >>

\* The scripts of the page finish loading.
LoadScripts ==
    /\ ~scriptsLoaded
    /\ scriptsLoaded' = TRUE
    /\ UNCHANGED << now, isStarted, onHandUpdateSeason, latestHands, latestFace, callbacks,
                    deliveryVars, controllerVars, audioVars,
                    status, isMounted, registered, polls, polled, handsRef, faceMeshRef,
                    closed, cameraRef, unmounted, uncaught,
                    closedWhileMounted, deliveredBy, lateCallbacks,
                    cameraLoop, windVars >>

\* A poll timer fires: initMediaPipe() of its session runs again (it does not
\* look at isMounted).
PollFire(t) ==
    /\ t \in polls
    /\ scriptsLoaded \/ polled < MaxPolls
    /\ polled' = IF scriptsLoaded THEN polled ELSE polled + 1
    /\ initMediaPipe(t.session, handsRef, faceMeshRef)
    /\ UNCHANGED << now, isStarted, onHandUpdateSeason, latestHands, latestFace, callbacks,
                    deliveryVars, controllerVars, audioVars,
                    scriptsLoaded, isMounted, closed, unmounted, uncaught,
                    closedWhileMounted, deliveredBy, lateCallbacks,
                    cameraLoop, windVars >>

\* await camera.start() settles: the camera runs, or start() rejects and the
\* catch sets the status.
CameraStart(ok) ==
    /\ cameraRef = "starting"
    /\ cameraRef' = IF ok THEN "running" ELSE "rejected"
    /\ status' = IF ok \/ unmounted THEN status ELSE "Error"
    /\ UNCHANGED << now, isStarted, onHandUpdateSeason, latestHands, latestFace, callbacks,
                    deliveryVars, controllerVars, audioVars,
                    scriptsLoaded, isMounted, registered, polls, polled, handsRef,
                    faceMeshRef, closed, unmounted, uncaught,
                    closedWhileMounted, deliveredBy, lateCallbacks,
                    cameraLoop, windVars >>

\* hands.onResults of session s, d ms after the previous callback (the
\* camera loop that sent the image is left to the caller).
HandsOnResultsOf(s, d, hs) ==
    /\ cameraRef = "running"
    /\ s \in registered
    /\ callbacks < MaxCallbacks
    /\ callbacks' = callbacks + 1
    /\ now' = now + d
    /\ latestHands' = HandResults(hs)
    /\ OnResults(s, latestHands', latestFace, now')
    /\ UNCHANGED << isStarted, onHandUpdateSeason, latestFace, controllerVars, audioVars,
                    scriptsLoaded, isMounted, registered, polls, polled, handsRef,
                    faceMeshRef, closed, cameraRef, unmounted, closedWhileMounted,
                    windVars >>

\* faceMesh.onResults of session s, d ms after the previous callback.
FaceOnResultsOf(s, d, fs) ==
    /\ cameraRef = "running"
    /\ s \in registered
    /\ callbacks < MaxCallbacks
    /\ callbacks' = callbacks + 1
    /\ now' = now + d
    /\ latestFace' = FaceResults(fs)
    /\ IF HandsMissing(latestHands)
       THEN OnResults(s, latestHands, latestFace', now')
       ELSE UNCHANGED << deliveryVars, status, deliveredBy, uncaught, lateCallbacks >>
    /\ UNCHANGED << isStarted, onHandUpdateSeason, latestHands, controllerVars, audioVars,
                    scriptsLoaded, isMounted, registered, polls, polled, handsRef,
                    faceMeshRef, closed, cameraRef, unmounted, closedWhileMounted,
                    windVars >>

\* The callbacks of the live session.
HandsOnResults(d, hs) ==
    /\ isStarted /\ ~unmounted
    /\ HandsOnResultsOf(Live, d, hs)
    /\ UNCHANGED cameraLoop

FaceOnResults(d, fs) ==
    /\ isStarted /\ ~unmounted
    /\ FaceOnResultsOf(Live, d, fs)
    /\ UNCHANGED cameraLoop

\* App re-renders with the new season, handleHandUpdate is re-created
\* (useCallback deps [season]) and the effects re-run: the GestureHandler
\* effect (deps [active, onHandUpdate]) cleans the live session up and starts
\* the next one, whose callbacks call the new handleHandUpdate; the audio
\* effect (deps [season, isStarted]) clears its interval and runs again.
ReRegister ==
    /\ isStarted
    /\ ~unmounted
    /\ onHandUpdateSeason # season
    /\ onHandUpdateSeason' = season
    /\ Cleanup(Live)
    /\ isMounted' = Append(TornDown(Live), TRUE)
    /\ initMediaPipe(Live + 1, 0, 0)
    /\ SetEngine(setSeason(Engine, season))
    /\ birdInterval' = BirdIntervalFor(season)
    /\ UNCHANGED << now, isStarted, latestHands, latestFace, callbacks, deliveryVars,
                    controllerVars, scriptsLoaded, polled, unmounted, uncaught,
                    ignoredCalls, deliveredBy, lateCallbacks,
                    cameraLoop, windVars >>

\* The App unmounts: the cleanups of the GestureHandler effect and of the
\* audio effect run; nothing else is released.
Unmount ==
    /\ isStarted
    /\ ~unmounted
    /\ unmounted' = TRUE
    /\ Cleanup(Live)
    /\ isMounted' = TornDown(Live)
    /\ handsRef' = 0
    /\ faceMeshRef' = 0
    /\ birdInterval' = NoSeason
    /\ UNCHANGED << now, isStarted, onHandUpdateSeason, latestHands, latestFace, callbacks,
                    deliveryVars, controllerVars, audioManager, audio, sounds, ignoredCalls,
                    scriptsLoaded, status, registered, polls, polled, cameraRef, uncaught,
                    deliveredBy, lateCallbacks,
                    cameraLoop, windVars >>

\* What no audio action touches.
AudioFrame == << now, isStarted, onHandUpdateSeason, latestHands, latestFace, callbacks,
                 deliveryVars, controllerVars, sessionVars,
                    cameraLoop, windVars >>

\* new AudioManager() alone.
AudioNew ==
    /\ audioManager = "null"
    /\ SetEngine([am |-> "constructed", a |-> FreshEngine, s |-> sounds])
    /\ UNCHANGED << AudioFrame, birdInterval, ignoredCalls >>

\* init() on the engine of a started App.
AudioInit ==
    /\ isStarted
    /\ audioManager # "null"
    /\ audio.inits < MaxInits
    /\ SetEngine(init(Engine))
    /\ UNCHANGED << AudioFrame, birdInterval, ignoredCalls >>

\* setSeason(sn) on an engine.
AudioSetSeason(sn) ==
    /\ audioManager # "null"
    /\ SoundCount + ignoredCalls < MaxSounds
    /\ SetEngine(setSeason(Engine, sn))
    /\ ignoredCalls' = ignoredCalls + NoContext
    /\ UNCHANGED << AudioFrame, birdInterval >>

\* playBirdSound / playLeafHit / playGrowthPulse on an engine.
AudioPlay(kind) ==
    /\ audioManager # "null"
    /\ SoundCount + ignoredCalls < MaxSounds
    /\ SetEngine(playSound(Engine, kind))
    /\ ignoredCalls' = ignoredCalls + NoContext
    /\ UNCHANGED << AudioFrame, birdInterval >>

\* The melody timeout fires: scheduleNote().
MelodyTimerFire ==
    /\ audio.timerID
    /\ SoundCount + ignoredCalls < MaxSounds
    /\ SetEngine(scheduleNote([Engine EXCEPT !.a.pending = @ - 1]))
    /\ UNCHANGED << AudioFrame, birdInterval, ignoredCalls >>

\* The App's bird-call interval fires; chirp is the outcome of its
\* Math.random() test.
BirdIntervalFire(chirp) ==
    /\ birdInterval # NoSeason
    /\ SoundCount + ignoredCalls < MaxSounds
    /\ SetEngine(IF chirp /\ audioManager # "null" THEN playSound(Engine, "birds")
                 ELSE Engine)
    /\ UNCHANGED << AudioFrame, birdInterval, ignoredCalls >>

\* onHandUpdate called with a record whatever its origin, d ms after the
\* previous update.
HandUpdate(d, data) ==
    /\ isStarted
    /\ inputs < MaxInputs
    /\ inputs' = inputs + 1
    /\ now' = now + d
    /\ handleHandUpdate(data, now')
    /\ UNCHANGED << isStarted, onHandUpdateSeason, latestHands, latestFace,
                    fingerCounts, callbacks, deliveredFace,
                    keys, velocity, currentYaw, currentPitch, cameraPositionY, frames,
                    sessionVars, audioVars,
                    cameraLoop, windVars >>

\* handleKeyDown / handleKeyUp of the HybridController (mounted once started).
KeyDown(code) ==
    /\ isStarted
    /\ inputs < MaxInputs
    /\ code \notin keys
    /\ inputs' = inputs + 1
    /\ keys' = keys \cup { code }
    /\ UNCHANGED << now, season, handData, isStarted, pendingSeason, progress,
                    audioManager, gestureHoldTimer, lastGesture, lastTime,
                    onHandUpdateSeason, latestHands, latestFace, fingerCounts, callbacks,
                    deliveredFace, velocity, currentYaw, currentPitch, cameraPositionY,
                    frames, sessionVars, audio, birdInterval, sounds, ignoredCalls,
                    hist,
                    cameraLoop, windVars >>

KeyUp(code) ==
    /\ isStarted
    /\ inputs < MaxInputs
    /\ code \in keys
    /\ inputs' = inputs + 1
    /\ keys' = keys \ { code }
    /\ UNCHANGED << now, season, handData, isStarted, pendingSeason, progress,
                    audioManager, gestureHoldTimer, lastGesture, lastTime,
                    onHandUpdateSeason, latestHands, latestFace, fingerCounts, callbacks,
                    deliveredFace, velocity, currentYaw, currentPitch, cameraPositionY,
                    frames, sessionVars, audio, birdInterval, sounds, ignoredCalls,
                    hist,
                    cameraLoop, windVars >>

\* The useFrame callback of the HybridController for a frame of k/TimeDen s.
\* The horizontal axes are those of yaw 0: a frame with forward or strafe
\* input is taken only while the camera has that yaw.
Frame(k) ==
    /\ isStarted
    /\ frames < MaxFrames
    /\ frames' = frames + 1
    /\ currentYaw' = currentYaw - rotSpeedY(handData) * k
    /\ currentPitch' = ClampPitch(currentPitch + rotSpeedX(handData) * k)
    /\ \/ currentYaw' = 0
       \/ forwardSpeed(handData, keys) = 0 /\ strafeSpeed(handData, keys) = 0
    /\ velocity' = Lerp(velocity, targetVelocity(handData, keys), k * damping(handData, keys))
    /\ cameraPositionY' =
          Floor(IF LengthSqAbove(velocity')
                THEN cameraPositionY + MulDiv(velocity'[2], k)
                ELSE cameraPositionY)
    /\ UNCHANGED << now, season, handData, isStarted, pendingSeason, progress,
                    audioManager, gestureHoldTimer, lastGesture, lastTime,
                    onHandUpdateSeason, latestHands, latestFace, fingerCounts, callbacks,
                    deliveredFace, keys, inputs, sessionVars, audio, birdInterval,
                    sounds, ignoredCalls, hist,
                    cameraLoop, windVars >>

\* onFrame of the camera, first half: await handsRef.current.send(...), in
\* which the hand model delivers one result to the callback of the session
\* whose Hands object the ref holds.
OnFrameHands(d, hs) ==
    /\ isStarted /\ ~unmounted
    /\ cameraLoop.awaiting = "hands"
    /\ handsRef # 0
    /\ HandsOnResultsOf(handsRef, d, hs)
    /\ cameraLoop' = [awaiting |-> "face",
                      records  |-> IF lastTime' # lastTime THEN 1 ELSE 0,
                      complete |-> FALSE]

\* onFrame, second half: await faceMeshRef.current.send(...), in which the
\* face model delivers one result; the frame is then complete.
OnFrameFace(d, fs) ==
    /\ isStarted /\ ~unmounted
    /\ cameraLoop.awaiting = "face"
    /\ faceMeshRef # 0
    /\ FaceOnResultsOf(faceMeshRef, d, fs)
    /\ cameraLoop' = [awaiting |-> "hands",
                      records  |-> cameraLoop.records
                                     + (IF lastTime' # lastTime THEN 1 ELSE 0),
                      complete |-> TRUE]

\* handleStart of the App with the wind control, and the effect "Sync gesture
\* to audio" (deps [gesture, intensity, isStarted]) of the started render.
StartWithWind ==
    /\ ~isStarted
    /\ isStarted' = TRUE
    /\ audioManager' = "initialized"
    /\ windLevels' = setWindIntensity(windLevels, WindLevel(gestureState, intensity))
    /\ UNCHANGED << now, onHandUpdateSeason, latestHands, latestFace, callbacks,
                    deliveryVars, controllerVars, sessionVars, audio, birdInterval,
                    sounds, ignoredCalls, cameraLoop, gestureState, intensity >>

\* handleGestureChange(g, i) of that App, called by its active gesture
\* handler, and the effect of the render that follows; chirp is the outcome
\* of the effect's Math.random() test.
handleGestureChange(g, i, chirp) ==
    /\ isStarted
    /\ << g, i >> # << gestureState, intensity >>
    /\ Len(windLevels) < MaxWindCalls
    /\ chirp => (g = "open" /\ SoundCount + ignoredCalls < MaxSounds)
    /\ gestureState' = g
    /\ intensity' = i
    /\ windLevels' = setWindIntensity(windLevels, WindLevel(g, i))
    /\ SetEngine(IF chirp THEN playSound(Engine, "birds") ELSE Engine)
    /\ UNCHANGED << now, isStarted, onHandUpdateSeason, latestHands, latestFace,
                    callbacks, deliveryVars, controllerVars, sessionVars, birdInterval,
                    ignoredCalls, cameraLoop >>

\* The 800 ms interval of the effect "Interval for birds when open", which
\* exists while the gesture is open.
OpenIntervalFire(chirp) ==
    /\ isStarted
    /\ gestureState = "open"
    /\ SoundCount + ignoredCalls < MaxSounds
    /\ SetEngine(IF chirp THEN playSound(Engine, "birds") ELSE Engine)
    /\ UNCHANGED << AudioFrame, birdInterval, ignoredCalls >>

Next ==
    \/ Start
    \/ \E ok \in BOOLEAN : CameraStart(ok)
    \/ \E d \in DtSet, hs \in MainFrames : HandsOnResults(d, hs)
    \/ \E d \in DtSet, fs \in MainFaces : FaceOnResults(d, fs)
    \/ ReRegister

Spec == Init /\ [][Next]_vars

\* The classifier alone: hand results over the probe frames.
NextClassifier ==
    \/ Start
    \/ CameraStart(TRUE)
    \/ /\ callbacks < MaxProbes
       /\ \E d \in ProbeDts, hs \in ProbeFrames : HandsOnResults(d, hs)

SpecClassifier == Init /\ [][NextClassifier]_vars

\* Hand and face results of the session-lifecycle runs: none, two hands
\* showing three fingers each, a hand whose landmark array stops before
\* index 8; no face, a face, a face whose array lacks index 454.
ShortHand == [i \in { 0, 4, 5, 6 } |-> LeftHand(3)[i]]

ShortFace == [i \in FaceIdx \ { 454 } |-> MkFace(46, 52)[i]]

SessionFrames == { << >>, << LeftHand(3), RightHand(3) >>, << ShortHand >> }

SessionFaces == { << >>, << MkFace(46, 52) >>, << ShortFace >> }

\* The life of the perception sessions: script polling, initialisation,
\* callbacks of live and of torn-down sessions, effect re-runs, unmount.
NextSession ==
    \/ Start
    \/ LoadScripts
    \/ \E t \in polls : PollFire(t)
    \/ \E ok \in BOOLEAN : CameraStart(ok)
    \/ /\ callbacks < MaxSessionCallbacks
       /\ UNCHANGED cameraLoop
       /\ \E s \in registered :
             \/ \E hs \in SessionFrames : HandsOnResultsOf(s, 1500, hs)
             \/ \E fs \in SessionFaces : FaceOnResultsOf(s, 1500, fs)
    \/ ReRegister
    \/ Unmount

SpecSession == InitUnloaded /\ [][NextSession]_vars

\* Timers fire: a pending poll timeout is not postponed for ever.
SpecSessionFair ==
    /\ SpecSession
    /\ WF_vars(\E t \in polls : PollFire(t))

\* The audio engine under its callers: the App (start, season effect,
\* bird-call interval, unmount), the scene (triggers) and its own timer.
NextAudio ==
    \/ Start
    \/ AudioNew
    \/ AudioInit
    \/ \E sn \in Seasons : AudioSetSeason(sn)
    \/ \E kind \in { "birds", "leafHits", "pulses" } : AudioPlay(kind)
    \/ MelodyTimerFire
    \/ \E chirp \in BOOLEAN : BirdIntervalFire(chirp)
    \/ Unmount

SpecAudio == Init /\ [][NextAudio]_vars

\* The camera controller: records delivered, keys, render frames.
NextCamera ==
    \/ Start
    \/ \E data \in CamRecords : HandUpdate(500, data)
    \/ \E code \in KeyCodes : KeyDown(code) \/ KeyUp(code)
    \/ \E k \in Deltas : Frame(k)

SpecCamera == Init /\ [][NextCamera]_vars

\* Face results of the camera-loop runs: none, a face looking ahead, a face
\* turned so far that the nose is beyond the cheek landmark, a face tilted so
\* far that the nose is above the top landmark.
LoopFaces == { << >>, << MkFace(46, 52) >>, << MkFace(30, 50) >>, << MkFace(50, 25) >> }

\* The camera loop: each frame sends the image to the hand model, then to the
\* face model.
NextCameraLoop ==
    \/ Start
    \/ \E ok \in BOOLEAN : CameraStart(ok)
    \/ \E d \in DtSet, hs \in MainFrames : OnFrameHands(d, hs)
    \/ \E d \in DtSet, fs \in LoopFaces : OnFrameFace(d, fs)
    \/ ReRegister

SpecCameraLoop == Init /\ [][NextCameraLoop]_vars

\* Records of the App runs: no hands, two hands showing two, three and four
\* fingers each (targets summer, autumn, winter), two open hands.
AppRecords ==
    { Rec("none", 100, 100, 0, 0, 0),
      Rec("dual_2", 100, 100, 2, 0, 0),
      Rec("dual_3", 100, 100, 2, 0, 0),
      Rec("dual_4", 100, 100, 2, 0, 0),
      Rec("dual_open", 100, 100, 2, 0, 0) }

\* Gaps between two updates of the App runs, ms.
AppDts == { 750, 1500 }

\* The App as a whole: classifier updates, render frames of the scene, the
\* effects that follow a season change, the audio engine's operations.
NextApp ==
    \/ Start
    \/ \E d \in AppDts, data \in AppRecords : HandUpdate(d, data)
    \/ Frame(1)
    \/ ReRegister
    \/ AudioSetSeason("winter")
    \/ \E kind \in { "leafHits", "pulses" } : AudioPlay(kind)
    \/ MelodyTimerFire

SpecApp == Init /\ [][NextApp]_vars

\* The App with the wind control under its gesture handler.
NextWind ==
    \/ StartWithWind
    \/ \E g \in WindGestures, i \in Intensities, chirp \in BOOLEAN :
          handleGestureChange(g, i, chirp)
    \/ OpenIntervalFire(TRUE)

SpecWind == Init /\ [][NextWind]_vars

TypeOK ==
    /\ season \in Seasons
    /\ pendingSeason \in Seasons \cup {NoSeason}
    /\ handData.gesture \in Gestures
    /\ lastGesture \in Gestures

\* ------------------------------------------------------------------ properties
\* A step in which handleHandUpdate ran: it stores performance.now(), which
\* has moved since the previous update.
Updated == lastTime' # lastTime

Idle == pendingSeason = NoSeason /\ progress = 0 /\ gestureHoldTimer = 0

\* Wall-clock time since the first update of the current run of one gesture.
Held == lastTime - hist.start

\* The gesture qualifies: it maps to a season other than the active one `s`.
Qualifies(gesture, s) == TargetSeason(gesture) \notin {NoSeason, s}

\* C1: from Idle, a constant gesture G whose target differs from the active
\* season leaves the season alone while the accumulated hold is below 1500 ms,
\* and the season is the target from the first update at which the hold
\* reaches 1500 ms on (so it changes exactly once).
C1_HoldCommitsOnce ==
    (lastTime > 0 /\ hist.idle /\ Qualifies(handData.gesture, hist.season))
        => IF Held >= HOLD_DURATION
           THEN season = TargetSeason(handData.gesture)
           ELSE season = hist.season

\* C2: an update whose gesture maps to no season leaves the season unchanged
\* and sets pending null, progress 0, timer 0; and the season changes only at
\* least 1500 ms after the last such update (the earlier hold is lost).
C2_BreakNeverCommits ==
    [][ /\ (Updated /\ TargetSeason(handData'.gesture) = NoSeason)
            => (season' = season /\ Idle')
        /\ (season' # season) => (lastTime' - hist'.brk >= HOLD_DURATION)
      ]_vars

C2_Witness ==
    /\ hist.brk = lastTime
    /\ hist.lost = HOLD_DURATION - 1
    /\ Idle
    /\ season = "summer"

\* C3: an update carrying a qualifying gesture (target other than the active
\* season) that differs from the previous update's gesture resets the hold
\* timer to 0 and reports the new target pending with progress 0.
C3_SwitchRestartsHold ==
    [][ (Updated /\ Qualifies(handData'.gesture, season)
                 /\ handData'.gesture # handData.gesture)
            => /\ gestureHoldTimer' = 0
               /\ pendingSeason' = TargetSeason(handData'.gesture)
               /\ progress' = 0
               /\ season' = season
      ]_vars

\* C4: an update whose gesture maps to the active season leaves the debouncer
\* Idle and the season unchanged.
C4_SameSeasonIdle ==
    [][ (Updated /\ TargetSeason(handData'.gesture) = season)
            => (Idle' /\ season' = season)
      ]_vars

\* C5: the season changes only on an update that continues a run of at least
\* two updates of one gesture mapping to the new season, the run spanning at
\* least 1500 ms between its first update and this one.
C5_CommitOnlyAfterHold ==
    [][ (season' # season)
            => /\ Updated
               /\ handData'.gesture = handData.gesture
               /\ hist'.start = hist.start
               /\ hist.start > 0
               /\ lastTime' - hist.start >= HOLD_DURATION
               /\ TargetSeason(handData'.gesture) = season'
      ]_vars

C5_Witness ==
    /\ hist.changes = 1
    /\ season = "autumn"
    /\ handData.gesture = "dual_3"
    /\ Held = HOLD_DURATION

\* C6 as stated: with season summer, both hands showing 2 fingers give dual_2,
\* pending autumn with rising progress, and autumn once 1500 ms are reached.
C6_TwoFingersToAutumn ==
    (fingerCounts = << 2, 2 >> /\ hist.season = "summer" /\ hist.changes <= 1)
        => /\ handData.gesture = "dual_2"
           /\ IF Held >= HOLD_DURATION
              THEN season = "autumn"
              ELSE pendingSeason = "autumn" /\ progress = Held

\* C6 amended: from start-up (season still the initial summer), both hands
\* showing 3 fingers give dual_3 on every cycle; below 1500 ms of hold the
\* pending season is autumn with progress hold/1500 (from 0, below 1); at
\* the first cycle at 1500 ms the season becomes autumn with the pending
\* season cleared and progress 0, and it stays autumn.
C6_ThreeFingersToAutumn ==
    [][ (Updated /\ fingerCounts' = << 3, 3 >> /\ hist'.season = "summer"
            /\ (hist'.changes = 0 \/ (hist'.changes = 1 /\ season' = "autumn")))
          => /\ handData'.gesture = "dual_3"
             /\ IF lastTime' - hist'.start >= HOLD_DURATION
                THEN /\ season' = "autumn"
                     /\ (season = "summer") => Idle'
                     /\ (season = "summer") =
                            (lastTime - hist'.start < HOLD_DURATION)
                ELSE /\ season' = "summer"
                     /\ pendingSeason' = "autumn"
                     /\ progress' = lastTime' - hist'.start
                     /\ progress' < HOLD_DURATION
      ]_vars

C6_Witness ==
    /\ fingerCounts = << 3, 3 >>
    /\ hist.season = "summer"
    /\ hist.changes = 1
    /\ Held = HOLD_DURATION
    /\ season = "autumn"
    /\ Idle

\* C7: every record delivered while no hands are detected has gesture none,
\* handCount 0 and position (0.5, 0.5), and leaves the debouncer Idle.
C7_NoHandsNeutral ==
    [][ (Updated /\ ~HasHands(latestHands'))
            => /\ handData'.gesture = "none"
               /\ handData'.handCount = 0
               /\ handData'.x = Scale /\ handData'.y = Scale
               /\ Idle'
      ]_vars

C7_Witness ==
    /\ latestHands.valid /\ ~HasHands(latestHands)
    /\ handData.gesture = "none"
    /\ ~hist.idle
    /\ Held >= 999
    /\ Idle

\* C8 as stated: two hands with finger counts (k,k), k in 1..4, give dual_k.
C8_MatchedCountsGiveDualK ==
    \A k \in 1..4 :
        fingerCounts = << k, k >> =>
            handData.gesture = (CASE k = 1 -> "dual_1" [] k = 2 -> "dual_2"
                                  [] k = 3 -> "dual_3" [] OTHER -> "dual_4")

Dist2(lm, i, j) == (lm[i].x - lm[j].x) * (lm[i].x - lm[j].x)
                 + (lm[i].y - lm[j].y) * (lm[i].y - lm[j].y)

\* The digits the claim counts: a long finger iff its tip is strictly farther
\* from the wrist (0) than its joint, the thumb iff tip (4) to index base (5)
\* is strictly more than 0.08.
ExtendedDigits(lm) ==
    { pr \in { << 8, 6 >>, << 12, 10 >>, << 16, 14 >>, << 20, 18 >> } :
          Dist2(lm, pr[1], 0) > Dist2(lm, pr[2], 0) }
        \cup (IF 10000 * Dist2(lm, 4, 5) > 64 * Scale * Scale
              THEN { << 4, 5 >> } ELSE {})

HandFields(r) == << r.gesture, r.x, r.y, r.handCount >>

\* The head fields of a record.
HeadFields(r) == << r.headYaw, r.headPitch >>

FrameRan == frames' = frames + 1

\* No movement input in the frame: the three target speeds are 0.
ZeroInput ==
    /\ forwardSpeed(handData, keys) = 0
    /\ strafeSpeed(handData, keys) = 0
    /\ verticalSpeed(handData, keys) = 0

\* C12: in a frame with zero movement input, whatever its delta, each
\* velocity component keeps its sign (or becomes 0) and does not grow in
\* magnitude.
C12_VelocityDecays ==
    [][ (FrameRan /\ ZeroInput)
          => \A i \in 1..3 :
                /\ Sign(velocity'[i]) \in { 0, Sign(velocity[i]) }
                /\ Abs(velocity'[i]) <= Abs(velocity[i]) ]_vars

\* C13: after every render frame the camera is at height 2 or above.
C13_CameraAboveFloor == frames > 0 => cameraPositionY >= 2 * VelDen

\* A frame moved the camera down onto the floor.
C13_Witness ==
    /\ frames > 0
    /\ velocity[2] < 0
    /\ cameraPositionY = 2 * VelDen

\* C14: after every render frame the pitch is within [-1.4, 1.4]; the yaw is
\* not clamped: a frame whose head yaw is beyond the dead zone always turns
\* the camera, against the sign of the head yaw.
C14_PitchClampedYawFree ==
    [][ FrameRan
          => /\ 10 * currentPitch' >= -(14 * AngleDen)
             /\ 10 * currentPitch' <= 14 * AngleDen
             /\ (handData.headYaw > rotDeadzone => currentYaw' < currentYaw)
             /\ (handData.headYaw < -rotDeadzone => currentYaw' > currentYaw) ]_vars

\* The pitch sits on its upper limit while the yaw is beyond 1.4 rad.
C14_Witness ==
    /\ frames > 0
    /\ 10 * currentPitch = 14 * AngleDen
    /\ 10 * Abs(currentYaw) > 14 * AngleDen

\* The keyboard terms the claim names: +12 / -12 m/s, in 1/SpeedDen.
KeyTerm(plus, minus) ==
    (IF plus \cap keys # {} THEN 12 * SpeedDen ELSE 0)
        - (IF minus \cap keys # {} THEN 12 * SpeedDen ELSE 0)

\* C15: in a frame whose record has hand count 0 the forward, strafe and
\* vertical target speeds are the keyboard terms alone, whatever the gesture,
\* x and y of the record, and the velocity moves toward that target; with or
\* without hands the keys add the same terms.
C15_KeyboardOnlyWithoutHands ==
    [][ FrameRan
          => LET kf == KeyTerm({"KeyW", "ArrowUp"}, {"KeyS", "ArrowDown"})
                 ks == KeyTerm({"KeyD", "ArrowRight"}, {"KeyA", "ArrowLeft"})
             IN  /\ handData.handCount = 0
                      => /\ forwardSpeed(handData, keys) = kf
                         /\ strafeSpeed(handData, keys) = ks
                         /\ verticalSpeed(handData, keys) = 0
                         /\ \E k \in Deltas :
                               velocity' = Lerp(velocity,
                                                << ks * TimeDen, 0, -(kf * TimeDen) >>,
                                                k * (IF kf = 0 /\ ks = 0 THEN 10 ELSE 3))
                 /\ forwardSpeed(handData, keys) - forwardSpeed(handData, {}) = kf
                 /\ strafeSpeed(handData, keys) - strafeSpeed(handData, {}) = ks
                 /\ verticalSpeed(handData, keys) = verticalSpeed(handData, {}) ]_vars

\* A frame ran on a record with hand count 0 that carries the gesture and the
\* position of two open hands off centre, with a key held.
C15_Witness ==
    /\ frames > 0
    /\ handData.handCount = 0 /\ handData.gesture = "dual_open"
    /\ handData.x # RecDen \div 2
    /\ "KeyW" \in keys
    /\ velocity = << 0, 0, -(36 * VelDen) \div 20 >>

\* The record of a cycle without hands and without a face.
NeutralRecord ==
    [gesture |-> "none", x |-> Scale, y |-> Scale, handCount |-> 0,
     headYaw |-> 0, headPitch |-> 0]

\* A step in which a callback of a mounted session ran processCombinedResults:
\* a hand callback, or a face callback while no hands are retained.
Processed ==
    /\ callbacks' = callbacks + 1
    /\ lateCallbacks' = lateCallbacks
    /\ latestHands' # latestHands \/ ~HasHands(latestHands')

\* C16: when a retained landmark array lacks an index the classifier reads
\* (hand 0, 4, 5, 6, 8, ..., 20; face 4, 10, 152, 234, 454), the processing
\* raises nothing and delivers the neutral record: gesture none, position
\* (0.5, 0.5), yaw 0, pitch 0.
C16_IncompleteIsNeutral ==
    [][ (Processed /\ Throws(latestHands', latestFace'))
          => /\ ~uncaught'
             /\ Updated
             /\ handData' = NeutralRecord ]_vars

\* C17: a record is delivered only by a session whose teardown has not run
\* (callbacks of torn-down sessions may run at any time), and the teardown
\* never closes the models of a session whose flag is still set.
C17_NoDeliveryAfterTeardown ==
    /\ [][ Updated => (deliveredBy' \in 1..Len(isMounted') /\ isMounted'[deliveredBy']
                          /\ ~unmounted') ]_vars
    /\ [](~closedWhileMounted)

\* A callback ran for a session after its teardown had closed its models.
C17_Witness ==
    /\ lateCallbacks > 0
    /\ closed # {}
    /\ \E s \in closed : ~isMounted[s]

\* C18: once the App is torn down no audio timer is left pending: neither
\* the melody timeout nor the bird-call interval.
C18_TimersCancelledOnTeardown ==
    unmounted => (~audio.timerID /\ birdInterval = NoSeason)

\* C19: before the start action there is no audio context, no melody timer
\* and no sound; and every step that leaves the engine without a context
\* (setSeason and the triggers called before init()) leaves its fields and
\* the scheduled sounds as they were.
C19_SilentBeforeStart ==
    /\ [](~isStarted => /\ audioManager # "initialized"
                        /\ ~audio.timerID /\ ~audio.isPlaying
                        /\ SoundCount = 0)
    /\ [][ (audioManager = "constructed" /\ audioManager' = "constructed")
             => (audio' = audio /\ sounds' = sounds) ]_vars

\* setSeason or a trigger was called on an engine whose init() has not run.
C19_Witness ==
    /\ ~isStarted
    /\ audioManager = "constructed"
    /\ ignoredCalls > 0

\* The live session has its models and the camera has been created and
\* asked to start.
Initialised ==
    /\ handsRef = Live /\ faceMeshRef = Live
    /\ Live \in registered
    /\ cameraRef # "null"

C21_OneRecordPerCycle == cameraLoop.complete => cameraLoop.records = 1

\* A step in which the face model delivered its result to the camera loop.
FaceArrived == cameraLoop.awaiting = "face" /\ cameraLoop'.awaiting = "hands"

\* A step in which the hand model delivered its result to the camera loop.
HandsArrived == cameraLoop.awaiting = "hands" /\ cameraLoop'.awaiting = "face"

\* C22: a face result with a face that arrives while the latest hand result
\* has no hands delivers a record with gesture none, hand count 0, position
\* (0.5, 0.5) and the yaw and pitch of that face (nose against the midpoint
\* of the cheeks, of top and bottom, times -10); a hand result with hands
\* that arrives while the latest face result has no face delivers the hand
\* gesture with yaw = pitch = 0.
C22_TracksIndependent ==
    [][ /\ (FaceArrived /\ HasFace(latestFace') /\ ~HasHands(latestHands))
            => LET lm == latestFace'.multiFaceLandmarks[1]
               IN  /\ Updated
                   /\ handData'.gesture = "none"
                   /\ handData'.handCount = 0
                   /\ handData'.x = Scale /\ handData'.y = Scale
                   /\ handData'.headYaw = -(10 * (2 * lm[4].x - (lm[234].x + lm[454].x)))
                   /\ handData'.headPitch = -(10 * (2 * lm[4].y - (lm[10].y + lm[152].y)))
        /\ (HandsArrived /\ HasHands(latestHands') /\ ~HasFace(latestFace))
            => /\ Updated
               /\ handData'.gesture \in Gestures \ { "none" }
               /\ handData'.gesture = IF Len(fingerCounts') = 2
                                      THEN DualGesture(fingerCounts'[1], fingerCounts'[2])
                                      ELSE "single"
               /\ handData'.handCount = Len(latestHands'.multiHandLandmarks)
               /\ handData'.headYaw = 0 /\ handData'.headPitch = 0 ]_vars

\* The face callback has delivered the head pose of a face while the hand
\* result of the same frame had no hands.
C22_Witness ==
    /\ cameraLoop.complete
    /\ latestHands.valid /\ ~HasHands(latestHands)
    /\ HasFace(latestFace) /\ deliveredFace = latestFace
    /\ handData.gesture = "none" /\ handData.handCount = 0
    /\ handData.headYaw = 80 /\ handData.headPitch = -40

\* C24: every delivered record has head yaw and head pitch within [-1, 1]
\* (RecDen is 1.0 in the units of a record).
C24_HeadPoseInRange ==
    /\ Abs(handData.headYaw) <= RecDen
    /\ Abs(handData.headPitch) <= RecDen

\* C23: the active season changes only in a classifier update that completes
\* a hold (the gesture of the previous update again, with the hold timer
\* reaching 1500 ms), and then to the target season of that gesture; every
\* other step (an update that completes no hold, a render frame, an audio
\* operation, an effect re-run) leaves it unchanged.
C23_SeasonOnlyByCommit ==
    [][ /\ (season' # season)
            => /\ Updated
               /\ handData'.gesture = handData.gesture
               /\ gestureHoldTimer + (lastTime' - lastTime) >= HOLD_DURATION
               /\ season' = TargetSeason(handData'.gesture)
        /\ (Updated /\ ~(handData'.gesture = lastGesture
                          /\ gestureHoldTimer + (lastTime' - lastTime) >= HOLD_DURATION))
            => season' = season
        /\ FrameRan => season' = season
        /\ (audio' # audio \/ sounds' # sounds \/ audioManager' # audioManager)
            => season' = season ]_vars

\* The season was committed once, and render frames and audio operations
\* have run around it.
C23_Witness ==
    /\ hist.changes = 1
    /\ season = "autumn"
    /\ frames > 0
    /\ sounds.pulses > 0
    /\ audio.currentSeason = "winter"

\* C25: every level passed to the audio engine is in 0..3, and the level
\* passed last is 0 when the gesture is not fist, and for a fist 3 if the
\* intensity is above 0.6, 2 if it is above 0.3 and at most 0.6, else 1.
C25_WindLevel ==
    /\ \A k \in 1..Len(windLevels) : windLevels[k] \in 0..3
    /\ isStarted =>
          /\ Len(windLevels) > 0
          /\ LET level == windLevels[Len(windLevels)]
             IN  /\ gestureState # "fist" => level = 0
                 /\ (gestureState = "fist" /\ 10 * intensity > 6 * Scale) => level = 3
                 /\ (gestureState = "fist" /\ 10 * intensity > 3 * Scale
                        /\ 10 * intensity <= 6 * Scale) => level = 2
                 /\ (gestureState = "fist" /\ 10 * intensity <= 3 * Scale) => level = 1

\* A fist went from above 0.6 to exactly 0.6 to exactly 0.3.
C25_Witness ==
    /\ windLevels = << 0, 3, 2, 1 >>
    /\ gestureState = "fist"
    /\ 10 * intensity = 3 * Scale

\* Some movement input is present in the frame: a movement key is held, the
\* hands show dual_open or dual_fist, or the hand position is outside the
\* 0.25 dead zone.
MovementInput ==
    \/ keys \cap { "KeyW", "ArrowUp", "KeyS", "ArrowDown",
                   "KeyA", "ArrowLeft", "KeyD", "ArrowRight" } # {}
    \/ /\ handData.handCount > 0
       /\ \/ handData.gesture \in { "dual_open", "dual_fist" }
          \/ 4 * Abs(handData.x - RecDen \div 2) > RecDen
          \/ 4 * Abs(handData.y - RecDen \div 2) > RecDen

\* C26: a render frame smooths the velocity toward the target with rate 10
\* when no movement input is present and with rate 3 when some is, opposing
\* inputs held together included.
C26_DampingByInput ==
    [][ FrameRan
          => \E k \in Deltas :
                velocity' = Lerp(velocity, targetVelocity(handData, keys),
                                 k * (IF MovementInput THEN 3 ELSE 10)) ]_vars

\* The sessions whose teardown has run.
TornDownSessions == { s \in 1..Len(isMounted) : ~isMounted[s] }

\* C27: a torn-down session holds no model handle and acquires none: no step
\* (a poll timer scheduled before the teardown that fires after it included)
\* builds models for it, registers its callbacks or starts the camera for it.
C27_NoInitAfterTeardown ==
    /\ [](\A s \in TornDownSessions : handsRef # s /\ faceMeshRef # s)
    /\ [][ \A s \in TornDownSessions :
              /\ (s \in registered' => s \in registered)
              /\ (cameraRef = "null" /\ Live = s) => cameraRef' = "null" ]_vars

\* C28: between updates the hold timer is in [0, 1500), and either nothing
\* is pending, with progress 0 and timer 0, or the pending season differs
\* from the active season and progress is timer / 1500, below 1.
C28_DebouncerConsistent ==
    /\ gestureHoldTimer >= 0
    /\ gestureHoldTimer < HOLD_DURATION
    /\ \/ pendingSeason = NoSeason /\ progress = 0 /\ gestureHoldTimer = 0
       \/ /\ pendingSeason \in Seasons \ { season }
          /\ progress = gestureHoldTimer
          /\ progress < HOLD_DURATION

\* C29: an update delivered after a commit, while the registered callback is
\* still the one created for the previous season, is evaluated against the
\* new active season: it reports nothing pending toward the season just
\* committed and, for a gesture that maps to it, leaves the hold timer at 0.
C29_UpdateSeesNewSeason ==
    [][ (Updated /\ onHandUpdateSeason # season)
          => /\ pendingSeason' # season
             /\ (TargetSeason(handData'.gesture) = season) => gestureHoldTimer' = 0 ]_vars

\* C30: whatever the number of init() calls on one engine, it has created
\* one audio context and runs one melody loop, at most one melody timeout is
\* pending at any moment, and each firing of the timeout schedules exactly
\* one successor.
C30_InitIdempotent ==
    /\ [](audio.inits > 0 => /\ audioManager = "initialized"
                             /\ audio.contexts = 1
                             /\ audio.isPlaying)
    /\ [](audio.pending <= 1 /\ (audio.timerID <=> audio.pending = 1))
    /\ [][ sounds'.notes = sounds.notes + 1 => audio'.pending = 1 ]_vars

\* init() has been called three times on one engine and the melody timeout
\* has fired in between.
C30_Witness ==
    /\ audio.inits = 3
    /\ sounds.notes >= 2
    /\ audio.pending = 1

====
